---------------------------- MODULE Spec2Model ----------------------------
(***************************************************************************)
(* A model of the e-commerce backend in src/main.py: the four handlers     *)
(* that touch the document store (list_products, get_product,              *)
(* seed_products, create_order), run as concurrent requests against one    *)
(* store.                                                                  *)
(*                                                                         *)
(* Units.  Python floats that carry money are modelled in fixed point: a   *)
(* JSON number x is the integer 1000*x ("mills"); a value already rounded  *)
(* to two decimals is an integer number of cents.  Text is a TLA+ string;  *)
(* Chars gives the characters of the strings whose characters the code     *)
(* looks at.  A product id (a request path segment, an ObjectId) is a      *)
(* sequence of characters.                                                 *)
(*                                                                         *)
(* database.py and schemas.py are not part of the source at hand: the      *)
(* store (get_documents, create_document, the identifiers it assigns) is   *)
(* modelled from its documented interface, and the payloads are those the  *)
(* Order schema accepts (price >= 0, quantity >= 1 once converted).        *)
(*                                                                         *)
(* Spec runs MaxReq concurrent requests of every kind; SpecPricing one     *)
(* order request over every item list of the pool; SpecCatalog one seed    *)
(* request and one query over every parameter value of the pools.          *)
(***************************************************************************)
EXTENDS Integers, Sequences, FiniteSets, TLC

VARIABLES
    db,        \* whether the store is configured (db is not None)
    product,   \* the "product" collection, in the store's natural order
    order,     \* the "order" collection
    nextId,    \* the number of the next identifier the store hands out
    failures,  \* how many inserts the store has let fail
    req        \* the requests: handler, position, parameters, locals, response

vars == <<db, product, order, nextId, failures, req>>

---------------------------------------------------------------------------
(* Bounds of the model. *)

\* Number of concurrent requests.
MaxReq == 2

\* Longest item list of an order payload in the pricing specification.
MaxItems == 2

\* Inserts the store lets fail in one run of the concurrent requests.
MaxFailures == 2

---------------------------------------------------------------------------
(* Text. *)

\* Python's None, for an absent optional value where the other values are
\* strings: distinct from every string the model uses.
PyNone == "<None>"

Chars(s) ==
    CASE s = "Wireless Noise-Cancelling Headphones" ->
           <<"W", "i", "r", "e", "l", "e", "s", "s", " ", "N", "o", "i", "s",
             "e", "-", "C", "a", "n", "c", "e", "l", "l", "i", "n", "g", " ",
             "H", "e", "a", "d", "p", "h", "o", "n", "e", "s">>
      [] s = "Immersive sound with active noise cancellation and 30h battery." ->
           <<"I", "m", "m", "e", "r", "s", "i", "v", "e", " ", "s", "o", "u",
             "n", "d", " ", "w", "i", "t", "h", " ", "a", "c", "t", "i", "v",
             "e", " ", "n", "o", "i", "s", "e", " ", "c", "a", "n", "c", "e",
             "l", "l", "a", "t", "i", "o", "n", " ", "a", "n", "d", " ", "3",
             "0", "h", " ", "b", "a", "t", "t", "e", "r", "y", ".">>
      [] s = "Electronics" ->
           <<"E", "l", "e", "c", "t", "r", "o", "n", "i", "c", "s">>
      [] s = "Ergonomic Office Chair" ->
           <<"E", "r", "g", "o", "n", "o", "m", "i", "c", " ", "O", "f", "f",
             "i", "c", "e", " ", "C", "h", "a", "i", "r">>
      [] s = "Lumbar support, breathable mesh, adjustable height and tilt." ->
           <<"L", "u", "m", "b", "a", "r", " ", "s", "u", "p", "p", "o", "r",
             "t", ",", " ", "b", "r", "e", "a", "t", "h", "a", "b", "l", "e",
             " ", "m", "e", "s", "h", ",", " ", "a", "d", "j", "u", "s", "t",
             "a", "b", "l", "e", " ", "h", "e", "i", "g", "h", "t", " ", "a",
             "n", "d", " ", "t", "i", "l", "t", ".">>
      [] s = "Home" ->
           <<"H", "o", "m", "e">>
      [] s = "Stainless Steel Water Bottle 1L" ->
           <<"S", "t", "a", "i", "n", "l", "e", "s", "s", " ", "S", "t", "e",
             "e", "l", " ", "W", "a", "t", "e", "r", " ", "B", "o", "t", "t",
             "l", "e", " ", "1", "L">>
      [] s = "Keeps drinks cold 24h or hot 12h, leak-proof design." ->
           <<"K", "e", "e", "p", "s", " ", "d", "r", "i", "n", "k", "s", " ",
             "c", "o", "l", "d", " ", "2", "4", "h", " ", "o", "r", " ", "h",
             "o", "t", " ", "1", "2", "h", ",", " ", "l", "e", "a", "k", "-",
             "p", "r", "o", "o", "f", " ", "d", "e", "s", "i", "g", "n", ".">>
      [] s = "Outdoors" ->
           <<"O", "u", "t", "d", "o", "o", "r", "s">>
      [] s = "Smart LED Light Bulb (4-pack)" ->
           <<"S", "m", "a", "r", "t", " ", "L", "E", "D", " ", "L", "i", "g",
             "h", "t", " ", "B", "u", "l", "b", " ", "(", "4", "-", "p", "a",
             "c", "k", ")">>
      [] s = "16M colors, app control, works with Alexa and Google." ->
           <<"1", "6", "M", " ", "c", "o", "l", "o", "r", "s", ",", " ", "a",
             "p", "p", " ", "c", "o", "n", "t", "r", "o", "l", ",", " ", "w",
             "o", "r", "k", "s", " ", "w", "i", "t", "h", " ", "A", "l", "e",
             "x", "a", " ", "a", "n", "d", " ", "G", "o", "o", "g", "l", "e",
             ".">>
      [] s = "Desk Lamp" ->
           <<"D", "e", "s", "k", " ", "L", "a", "m", "p">>
      [] s = "Warm light for the home office." ->
           <<"W", "a", "r", "m", " ", "l", "i", "g", "h", "t", " ", "f", "o",
             "r", " ", "t", "h", "e", " ", "h", "o", "m", "e", " ", "o", "f",
             "f", "i", "c", "e", ".">>
      [] s = "home" ->
           <<"h", "o", "m", "e">>
      [] s = "Gift Card" ->
           <<"G", "i", "f", "t", " ", "C", "a", "r", "d">>
      [] s = "" ->
           <<>>
      [] s = "chair" ->
           <<"c", "h", "a", "i", "r">>
      [] s = "smart" ->
           <<"s", "m", "a", "r", "t">>
      [] s = "h.me" ->
           <<"h", ".", "m", "e">>

UpperCase == <<"A", "B", "C", "D", "E", "F", "G", "H", "I", "J", "K", "L", "M",
               "N", "O", "P", "Q", "R", "S", "T", "U", "V", "W", "X", "Y", "Z">>

LowerCase == <<"a", "b", "c", "d", "e", "f", "g", "h", "i", "j", "k", "l", "m",
               "n", "o", "p", "q", "r", "s", "t", "u", "v", "w", "x", "y", "z">>

\* The lower-case form of one character.
Lower(c) ==
    IF \E i \in 1..Len(UpperCase) : UpperCase[i] = c
    THEN LowerCase[CHOOSE i \in 1..Len(UpperCase) : UpperCase[i] = c]
    ELSE c

\* One character of a regular expression against one character of the text,
\* under option "i": "." matches any character (no text of the model holds a
\* line break), every other character of the model's patterns is a literal.
RegexCharMatches(p, c) == p = "." \/ Lower(p) = Lower(c)

\* {field: {"$regex": pat, "$options": "i"}}: the pattern matches somewhere
\* in the text (an unanchored search).
RegexSearch(pat, text) ==
    \E k \in 0..(Len(text) - Len(pat)) :
        \A j \in 1..Len(pat) : RegexCharMatches(pat[j], text[k + j])

---------------------------------------------------------------------------
(* Object ids. *)

\* Characters of the hexadecimal form of an ObjectId.
OidLen == 24

HexLower == <<"0", "1", "2", "3", "4", "5", "6", "7",
              "8", "9", "a", "b", "c", "d", "e", "f">>

HexChars == {HexLower[i] : i \in 1..16} \cup {"A", "B", "C", "D", "E", "F"}

\* str(oid) of the n-th identifier the store hands out: 24 lower-case
\* hexadecimal characters.
OidStr(n) ==
    [i \in 1..OidLen |->
        IF i = OidLen THEN HexLower[(n % 16) + 1]
        ELSE IF i = OidLen - 1 THEN HexLower[((n \div 16) % 16) + 1]
        ELSE "0"]

\* ObjectId(product_id) raises for a string that is not 24 hexadecimal
\* characters.
\* Mutant: only the length is checked.
ObjectIdInvalidMutant(s) == Len(s) # OidLen

ObjectIdInvalid(s) ==
    Len(s) # OidLen \/ \E i \in 1..Len(s) : s[i] \notin HexChars

\* The ObjectId a valid string denotes: upper- and lower-case digits denote
\* the same bytes, str() of it is lower-case.
ObjectId(s) == [i \in 1..Len(s) |-> Lower(s[i])]

---------------------------------------------------------------------------
(* Documents and the store. *)

\* d.get(k, default) of a document or a dict.
Get(d, k, default) == IF k \in DOMAIN d THEN d[k] ELSE default

\* The demo catalog of seed_products; prices in cents, ratings in tenths.
samples ==
    << [title |-> "Wireless Noise-Cancelling Headphones",
        description |->
          "Immersive sound with active noise cancellation and 30h battery.",
        image |->
          "https://images.unsplash.com/photo-1518443895914-6df8ccca9fd8?q=80&w=1200&auto=format&fit=crop",
        price |-> 19999, category |-> "Electronics",
        rating |-> 46, in_stock |-> TRUE],
       [title |-> "Ergonomic Office Chair",
        description |->
          "Lumbar support, breathable mesh, adjustable height and tilt.",
        image |->
          "https://images.unsplash.com/photo-1582582429416-2f6b24fd4a62?q=80&w=1200&auto=format&fit=crop",
        price |-> 12900, category |-> "Home",
        rating |-> 44, in_stock |-> TRUE],
       [title |-> "Stainless Steel Water Bottle 1L",
        description |->
          "Keeps drinks cold 24h or hot 12h, leak-proof design.",
        image |->
          "https://images.unsplash.com/photo-1519681393784-d120267933ba?q=80&w=1200&auto=format&fit=crop",
        price |-> 2499, category |-> "Outdoors",
        rating |-> 48, in_stock |-> TRUE],
       [title |-> "Smart LED Light Bulb (4-pack)",
        description |->
          "16M colors, app control, works with Alexa and Google.",
        image |->
          "https://images.unsplash.com/photo-1482192596544-9eb780fc7f66?q=80&w=1200&auto=format&fit=crop",
        price |-> 3999, category |-> "Electronics",
        rating |-> 43, in_stock |-> TRUE] >>

\* Product collections the store may hold before the first request: products
\* are "created via seed or external insertion", and a schemaless record may
\* lack any field.
Catalogs ==
    { <<>>,
      << [_id |-> OidStr(10), title |-> "Desk Lamp",
          description |-> "Warm light for the home office.",
          price |-> 1950, category |-> "home"],
         [_id |-> OidStr(11), title |-> "Gift Card"] >> }

\* The document as the store keeps it: the store assigns _id.
WithId(doc, oid) ==
    [k \in DOMAIN doc \cup {"_id"} |-> IF k = "_id" THEN oid ELSE doc[k]]

\* The first n elements of a sequence.
Take(s, n) == SubSeq(s, 1, IF n < Len(s) THEN n ELSE Len(s))

\* An optional query parameter: <<>> when absent, <<s>> when given.
Absent == <<>>

Given(s) == <<s>>

\* Python's truth of an Optional[str]: None and "" are false.
\* Mutant: "is not None" in place of truth.
TruthyMutant(opt) == opt # Absent

Truthy(opt) == opt # Absent /\ opt[1] # ""

\* filter_dict of list_products: an exact match on category, an "$or" of
\* three case-insensitive regular expressions.
BuildFilter(category, q) ==
    [category |-> IF Truthy(category) THEN category ELSE Absent,
     regex    |-> IF Truthy(q) THEN q ELSE Absent]

\* Whether a stored document satisfies filter_dict: a condition on a field
\* the document lacks is not satisfied.
Matches(d, f) ==
    /\ f.category # Absent =>
          ("category" \in DOMAIN d /\ d.category = f.category[1])
    /\ f.regex # Absent =>
          \E k \in {"title", "description", "category"} :
              k \in DOMAIN d /\ RegexSearch(Chars(f.regex[1]), Chars(d[k]))

\* get_documents(collection, filter_dict, limit): the matching documents in
\* the store's natural order, capped at limit.
get_documents(coll, f, limit) ==
    Take(SelectSeq(coll, LAMBDA d : Matches(d, f)), limit)

\* The public view list_products builds of a document.
ProductView(d) ==
    [id          |-> d._id,
     title       |-> Get(d, "title", PyNone),
     description |-> Get(d, "description", PyNone),
     price       |-> Get(d, "price", 0),
     category    |-> Get(d, "category", "Other"),
     image       |-> Get(d, "image", PyNone),
     rating      |-> Get(d, "rating", 45),
     in_stock    |-> Get(d, "in_stock", TRUE)]

\* find_one({"_id": oid}): the documents with that identifier.
FindById(coll, oid) == SelectSeq(coll, LAMBDA d : d._id = oid)

\* doc["id"] = str(doc.pop("_id")).
RenameId(d) ==
    [k \in (DOMAIN d \ {"_id"}) \cup {"id"} |->
        IF k = "id" THEN d._id ELSE d[k]]

---------------------------------------------------------------------------
(* Order pricing. *)

\* A JSON value of an item dict: a number (in mills), null or a string.
Num(n) == [t |-> "num", n |-> n, s |-> ""]

Null == [t |-> "null", n |-> 0, s |-> ""]

Str(s) == [t |-> "str", n |-> 0, s |-> s]

\* float(v): TypeError for None, ValueError for a string that is no number
\* (no string of the model is one).
FloatError(v) ==
    CASE v.t = "null" -> "TypeError"
      [] v.t = "str"  -> "ValueError"
      [] OTHER        -> "ok"

\* int(v) fails as float(v) does.
IntError(v) == FloatError(v)

\* float(v) of a number, in mills.
PyFloat(v) == v.n

\* int(v) of a number: truncation toward zero.
PyInt(v) == IF v.n >= 0 THEN v.n \div 1000 ELSE -((-v.n) \div 1000)

\* str(v): the string itself, "None" for None, the digits of an integer.
PyStr(v) ==
    CASE v.t = "str"  -> v.s
      [] v.t = "null" -> "None"
      [] OTHER        -> ToString(PyInt(v))

\* The first conversion of one item that raises, in evaluation order:
\* float(i.get("price", 0)), then int(i.get("quantity", 1)).
ItemError(i) ==
    IF FloatError(Get(i, "price", Num(0))) # "ok"
    THEN FloatError(Get(i, "price", Num(0)))
    ELSE IntError(Get(i, "quantity", Num(1000)))

RECURSIVE ItemsError(_)
\* The exception the conversions of an item list raise ("ok": none).
ItemsError(items) ==
    IF items = <<>> THEN "ok"
    ELSE IF ItemError(Head(items)) # "ok" THEN ItemError(Head(items))
    ELSE ItemsError(Tail(items))

\* float(price) * int(quantity) of one item, in mills.
LineTotal(i) ==
    PyFloat(Get(i, "price", Num(0))) * PyInt(Get(i, "quantity", Num(1000)))

RECURSIVE Subtotal(_)
\* sum(float(price) * int(quantity) for i in items), in mills.
Subtotal(items) ==
    IF items = <<>> THEN 0
    ELSE LineTotal(Head(items)) + Subtotal(Tail(items))

\* Free shipping from this subtotal on (in currency units).
ShippingThreshold == 50

\* The flat shipping rate, in cents.
ShippingRate == 699

\* The tax rate, in percent.
TaxPercent == 7

\* shipping = 0 if subtotal >= 50 else 6.99, in cents, of the subtotal in
\* mills.
Shipping(subtotal) ==
    IF subtotal >= ShippingThreshold * 1000 THEN 0 ELSE ShippingRate

\* round(x, 2) of x = n/d cents: the nearest whole number of cents.  At a
\* decimal tie (x.xx5) the float that stands for x lies just above or just
\* below the tie, or on it (then the even neighbour is taken); which one
\* depends on the binary rounding of the operations that produced x, which
\* fixed point does not track: either neighbour.
Round2(n, d) ==
    LET q == n \div d
        r == n % d
    IN  IF 2 * r < d THEN {q}
        ELSE IF 2 * r > d THEN {q + 1}
        ELSE {q, q + 1}

\* The items as create_order stores them.
OrderItems(items) ==
    [k \in 1..Len(items) |->
        [product_id |-> PyStr(Get(items[k], "product_id", Str(""))),
         title      |-> PyStr(Get(items[k], "title", Str(""))),
         price      |-> PyFloat(Get(items[k], "price", Num(0))),
         quantity   |-> PyInt(Get(items[k], "quantity", Num(1000))),
         image      |-> Get(items[k], "image", Null)]]

\* The Order create_order builds: sub2, taxes and total are the rounded
\* subtotal, the taxes and the total, in cents.
OrderDoc(payload, sub2, shipping, taxes, total) ==
    [items    |-> OrderItems(payload.items),
     subtotal |-> sub2,
     shipping |-> shipping,
     taxes    |-> taxes,
     total    |-> total,
     customer_name    |-> payload.customer_name,
     customer_email   |-> payload.customer_email,
     customer_address |-> payload.customer_address]

\* The item dicts the requests of the model submit: prices of whole units,
\* a price that rounds up to the shipping threshold (49.996), a price on a
\* rounding tie (0.045), missing keys, a fractional quantity, null and
\* strings.  The prices that are no whole number never sum to the threshold,
\* so the comparison with it is the same in floating point.
ItemPool ==
    { [product_id |-> Str("p1"), title |-> Str("Chair"),
       price |-> Num(30000), quantity |-> Num(2000), image |-> Str("c.png")],
      [product_id |-> Str("p2"), title |-> Str("Mug"),
       price |-> Num(10000), quantity |-> Num(1000)],
      [price |-> Num(49996)],
      [price |-> Num(45), quantity |-> Num(1000)],
      [title |-> Str("Free sample"), quantity |-> Num(2500)],
      [product_id |-> Null, price |-> Num(50000), quantity |-> Num(1000)],
      [price |-> Null, quantity |-> Num(1000)],
      [price |-> Str("abc")],
      [price |-> Num(10000), quantity |-> Null],
      [price |-> Num(10000), quantity |-> Str("two")] }

\* A payload of POST /api/orders.
Payload(items) ==
    [items |-> items, customer_name |-> "Ada Lovelace",
     customer_email |-> "ada@example.com",
     customer_address |-> "12 St James Square"]

\* The item lists of the pricing specification.
ItemLists == UNION { [1..n -> ItemPool] : n \in 0..MaxItems }

\* The item lists the concurrent requests submit.
SomeItemLists ==
    { <<>>,
      << [product_id |-> Str("p1"), title |-> Str("Chair"),
          price |-> Num(30000), quantity |-> Num(2000),
          image |-> Str("c.png")] >>,
      << [price |-> Num(49996)] >>,
      << [price |-> Null, quantity |-> Num(1000)] >> }

---------------------------------------------------------------------------
(* Requests. *)

Reqs == 1..MaxReq

\* The response of a handler: an HTTP status, the kind of outcome and the
\* body.  An HTTPException carries its status; any other exception leaves
\* the handler unhandled (the framework answers 500).
Response(status, kind, body) == [status |-> status, kind |-> kind, body |-> body]

NoResponse == Response(0, "none", <<>>)

\* raise HTTPException(status_code=500, detail="Database not configured")
StoreUnavailable == Response(500, "StoreUnavailable", "Database not configured")

\* raise HTTPException(status_code=400, detail="Invalid product id")
InvalidIdentifier == Response(400, "InvalidIdentifier", "Invalid product id")

\* raise HTTPException(status_code=404, detail="Product not found")
NotFound == Response(404, "NotFound", "Product not found")

\* An exception no handler catches.
Unhandled(exc) == Response(500, exc, "Internal Server Error")

\* A request slot: the handler it runs (op), where the handler stands (pc),
\* its parameters (arg), its local variables (loc) and its response (resp).
IdleRequest ==
    [op |-> "none", pc |-> "idle", arg |-> <<>>, loc |-> <<>>,
     resp |-> NoResponse]

\* The values of the category parameter the requests pass.
Categories == {Absent, Given(""), Given("Electronics"), Given("home")}

\* The values of the q parameter the requests pass.
Queries == {Absent, Given(""), Given("chair"), Given("h.me")}

\* limit: int = 50
DefaultLimit == 50

\* The values of the limit parameter the requests pass.
Limits == {1, 2, DefaultLimit}

\* The product ids the requests pass: the string of a stored identifier, the
\* same in upper case, of identifiers stored later or never, and strings
\* that are no identifier (too short, a character that is no digit).
ProductIds ==
    { OidStr(10), [OidStr(10) EXCEPT ![OidLen] = "A"], OidStr(12),
      OidStr(254), <<"1", "2", "3">>, [OidStr(10) EXCEPT ![1] = "g"] }

Init ==
    /\ db \in BOOLEAN
    /\ product \in Catalogs
    /\ order = <<>>
    /\ nextId = 10 + Len(product)
    /\ failures = 0
    /\ req = [r \in Reqs |-> IdleRequest]

\* A request arrives in slot r: the slots fill in order.
Arrives(r) ==
    /\ req[r].pc = "idle"
    /\ r > 1 => req[r - 1].pc # "idle"

\* The handler of slot r returns or raises: its locals stay as they were.
Done(r, op, arg, loc, resp) ==
    req' = [req EXCEPT ![r] =
              [op |-> op, pc |-> "done", arg |-> arg, loc |-> loc,
               resp |-> resp]]

\* The body list_products returns.
ListResult(coll, category, q, limit) ==
    LET docs == get_documents(coll, BuildFilter(category, q), limit)
    IN  [k \in 1..Len(docs) |-> ProductView(docs[k])]

\* GET /api/products
list_products(r, category, q, limit) ==
    /\ Arrives(r)
    /\ Done(r, "list_products",
            [category |-> category, q |-> q, limit |-> limit], <<>>,
            IF ~db THEN StoreUnavailable
            ELSE Response(200, "ok", ListResult(product, category, q, limit)))
    /\ UNCHANGED <<db, product, order, nextId, failures>>

\* The response of get_product.
GetResult(coll, product_id) ==
    IF ObjectIdInvalid(product_id) THEN InvalidIdentifier
    ELSE IF FindById(coll, ObjectId(product_id)) = <<>> THEN NotFound
    ELSE Response(200, "ok", RenameId(Head(FindById(coll, ObjectId(product_id)))))

\* Mutant: the identifier is parsed before the store is checked.
get_product_parse_first(r, product_id) ==
    /\ Arrives(r)
    /\ Done(r, "get_product", [product_id |-> product_id], <<>>,
            IF ObjectIdInvalid(product_id) THEN InvalidIdentifier
            ELSE IF ~db THEN StoreUnavailable
            ELSE GetResult(product, product_id))
    /\ UNCHANGED <<db, product, order, nextId, failures>>

\* GET /api/products/{product_id}
get_product(r, product_id) ==
    /\ Arrives(r)
    /\ Done(r, "get_product", [product_id |-> product_id], <<>>,
            IF ~db THEN StoreUnavailable ELSE GetResult(product, product_id))
    /\ UNCHANGED <<db, product, order, nextId, failures>>

\* POST /api/products/seed, up to the loop over samples.
seed_products(r) ==
    /\ Arrives(r)
    /\ IF ~db
       THEN Done(r, "seed_products", <<>>, <<>>, StoreUnavailable)
       ELSE req' = [req EXCEPT ![r] =
                      [op |-> "seed_products", pc |-> "loop", arg |-> <<>>,
                       loc |-> [s |-> 1, inserted |-> 0],
                       resp |-> NoResponse]]
    /\ UNCHANGED <<db, product, order, nextId, failures>>

\* Mutant: inserted counts the iterations, not the successful inserts.
SeedNextCountsAll(loc, ok) == [s |-> loc.s + 1, inserted |-> loc.inserted + 1]

\* The loop variables after an iteration that inserted (ok) or raised.
SeedNext(loc, ok) ==
    [s |-> loc.s + 1, inserted |-> IF ok THEN loc.inserted + 1 ELSE loc.inserted]

\* The request after an iteration of the loop: the next iteration, or past
\* the last sample return {"inserted": inserted}.
SeedStep(r, loc) ==
    IF loc.s <= Len(samples)
    THEN req' = [req EXCEPT ![r].loc = loc]
    ELSE Done(r, "seed_products", <<>>, loc,
              Response(200, "ok", [inserted |-> loc.inserted]))

\* One iteration of the loop: create_document("product", s) succeeds.
seed_insert(r) ==
    /\ req[r].op = "seed_products" /\ req[r].pc = "loop"
    /\ product' = Append(product, WithId(samples[req[r].loc.s], OidStr(nextId)))
    /\ nextId' = nextId + 1
    /\ SeedStep(r, SeedNext(req[r].loc, TRUE))
    /\ UNCHANGED <<db, order, failures>>

\* One iteration of the loop: create_document raises, the exception is
\* swallowed.
seed_insert_fails(r) ==
    /\ req[r].op = "seed_products" /\ req[r].pc = "loop"
    /\ failures' = failures + 1
    /\ SeedStep(r, SeedNext(req[r].loc, FALSE))
    /\ UNCHANGED <<db, product, order, nextId>>

\* POST /api/orders with the given items, up to create_document: the store
\* check, the totals and the Order.
create_order(r, items) ==
    /\ Arrives(r)
    /\ LET payload  == Payload(items)
           subtotal == Subtotal(items)
           shipping == Shipping(subtotal)
       IN  IF ~db THEN Done(r, "create_order", payload, <<>>, StoreUnavailable)
           ELSE IF ItemsError(items) # "ok"
           THEN Done(r, "create_order", payload, <<>>,
                     Unhandled(ItemsError(items)))
           ELSE \E sub2 \in Round2(subtotal, 10),
                   taxes \in Round2(subtotal * TaxPercent, 1000) :
                  \E total \in Round2(subtotal + 10 * shipping + 10 * taxes, 10) :
                     req' = [req EXCEPT ![r] =
                               [op |-> "create_order", pc |-> "insert",
                                arg |-> payload,
                                loc |-> [order_doc |->
                                           OrderDoc(payload, sub2, shipping,
                                                    taxes, total),
                                         total |-> total],
                                resp |-> NoResponse]]
    /\ UNCHANGED <<db, product, order, nextId, failures>>

\* Mutant: the insert replaces the collection.
create_order_insert_replaces(r) ==
    /\ req[r].op = "create_order" /\ req[r].pc = "insert"
    /\ order' = << WithId(req[r].loc.order_doc, OidStr(nextId)) >>
    /\ nextId' = nextId + 1
    /\ Done(r, "create_order", req[r].arg, req[r].loc,
            Response(200, "ok",
                     [order_id |-> OidStr(nextId), total |-> req[r].loc.total]))
    /\ UNCHANGED <<db, product, failures>>

\* Mutant: an order equal to a stored one is not inserted again, the stored
\* one's identifier is returned.
create_order_insert_dedup(r) ==
    /\ req[r].op = "create_order" /\ req[r].pc = "insert"
    /\ LET same == { k \in 1..Len(order) :
                       WithId(req[r].loc.order_doc, order[k]._id) = order[k] }
           oid  == IF same = {} THEN OidStr(nextId)
                   ELSE order[CHOOSE k \in same : TRUE]._id
       IN  /\ order' = IF same = {} THEN Append(order, WithId(req[r].loc.order_doc, oid))
                       ELSE order
           /\ nextId' = IF same = {} THEN nextId + 1 ELSE nextId
           /\ Done(r, "create_order", req[r].arg, req[r].loc,
                   Response(200, "ok",
                            [order_id |-> oid, total |-> req[r].loc.total]))
    /\ UNCHANGED <<db, product, failures>>

\* order_id = create_document("order", order_doc) succeeds; the handler
\* returns {"order_id": order_id, "total": total}.
create_order_insert(r) ==
    /\ req[r].op = "create_order" /\ req[r].pc = "insert"
    /\ order' = Append(order, WithId(req[r].loc.order_doc, OidStr(nextId)))
    /\ nextId' = nextId + 1
    /\ Done(r, "create_order", req[r].arg, req[r].loc,
            Response(200, "ok",
                     [order_id |-> OidStr(nextId), total |-> req[r].loc.total]))
    /\ UNCHANGED <<db, product, failures>>

\* create_document("order", order_doc) raises: nothing catches it.
create_order_insert_fails(r) ==
    /\ req[r].op = "create_order" /\ req[r].pc = "insert"
    /\ failures' = failures + 1
    /\ Done(r, "create_order", req[r].arg, req[r].loc,
            Unhandled("StoreError"))
    /\ UNCHANGED <<db, product, order, nextId>>

\* The list_products parameters the concurrent requests pass.
SomeListArgs ==
    { [category |-> Absent, q |-> Absent, limit |-> 1],
      [category |-> Given("Electronics"), q |-> Given("smart"), limit |-> 2] }

\* The product ids the concurrent requests pass.
SomeProductIds == { OidStr(10), <<"1", "2", "3">> }

Next ==
    \E r \in Reqs :
        \/ \E a \in SomeListArgs : list_products(r, a.category, a.q, a.limit)
        \/ \E product_id \in SomeProductIds : get_product(r, product_id)
        \/ seed_products(r)
        \/ seed_insert(r)
        \/ failures < MaxFailures /\ seed_insert_fails(r)
        \/ \E items \in SomeItemLists : create_order(r, items)
        \/ create_order_insert(r)
        \/ failures < MaxFailures /\ create_order_insert_fails(r)

\* Concurrent requests of every kind against one store, which lets at most
\* MaxFailures inserts fail.
Spec == Init /\ [][Next]_vars

\* One order request, over every item list of the pool.
NextPricing ==
    \/ \E items \in ItemLists : create_order(1, items)
    \/ create_order_insert(1)
    \/ create_order_insert_fails(1)

SpecPricing == Init /\ [][NextPricing]_vars

\* One seed request and, while or after it runs, one query over every
\* parameter value of the pools.
NextCatalog ==
    \/ seed_products(1)
    \/ seed_insert(1)
    \/ seed_insert_fails(1)
    \/ \E category \in Categories, q \in Queries, limit \in Limits :
          list_products(2, category, q, limit)
    \/ \E product_id \in ProductIds : get_product(2, product_id)

SpecCatalog == Init /\ [][NextCatalog]_vars

---------------------------------------------------------------------------
(* What the claims speak of. *)

\* Slot r ran handler op to its end.
Finished(r, op) == req[r].op = op /\ req[r].pc = "done"

\* Slot r ran handler op to its end and answered 200.
Succeeded(r, op) == Finished(r, op) /\ req[r].resp.status = 200

\* Slot r answers in this step.
Answers(r, op) == req[r].pc # "done" /\ req'[r].pc = "done" /\ req'[r].op = op

\* The stored order whose identifier slot r returned.
OrderOf(r) ==
    order[CHOOSE k \in 1..Len(order) : order[k]._id = req[r].resp.body.order_id]

\* The true containment of needle in text, letter case ignored.
ContainsIgnoreCase(needle, text) ==
    \E k \in 0..(Len(text) - Len(needle)) :
        \A j \in 1..Len(needle) : Lower(needle[j]) = Lower(text[k + j])

\* The stored product is one of the demo products.
IsSample(d) == \E k \in 1..Len(samples) : d = WithId(samples[k], d._id)

\* How many stored products are demo products.
SeededCount == Cardinality({k \in 1..Len(product) : IsSample(product[k])})

\* The inserted counter of slot r's seed request (0 without one).
InsertedBy(r) ==
    IF req[r].op = "seed_products"
       /\ (req[r].pc = "loop" \/ req[r].resp.status = 200)
    THEN req[r].loc.inserted
    ELSE 0

RECURSIVE InsertedUpTo(_)
\* The sum of the inserted counters of slots 1..n.
InsertedUpTo(n) == IF n = 0 THEN 0 ELSE InsertedBy(n) + InsertedUpTo(n - 1)

---------------------------------------------------------------------------
(* The claims. *)

\* C1: every persisted order has total = subtotal + shipping + taxes, with
\* subtotal the (rounded) sum of price*quantity of the submitted items,
\* taxes = round(subtotal*0.07, 2), the returned total equal to the stored
\* one, and 0 / 6.99 / 0.00 / 6.99 for an empty item list.
C1_TotalIsSum ==
    \A r \in Reqs :
        Succeeded(r, "create_order") =>
            LET d   == OrderOf(r)
                raw == Subtotal(req[r].arg.items)
            IN  /\ d.total = d.subtotal + d.shipping + d.taxes
                /\ d.subtotal \in Round2(raw, 10)
                /\ d.taxes \in Round2(raw * TaxPercent, 1000)
                /\ req[r].resp.body.total = d.total
                /\ req[r].arg.items = <<>> =>
                      /\ d.subtotal = 0 /\ d.shipping = ShippingRate
                      /\ d.taxes = 0 /\ d.total = ShippingRate

\* C2: in every persisted order shipping is 0 exactly when the subtotal is
\* at least 50 (50 included) and 6.99 otherwise; no other value is stored.
C2_ShippingIffThreshold ==
    \A r \in Reqs :
        Succeeded(r, "create_order") =>
            LET d == OrderOf(r)
            IN  /\ d.shipping = 0 <=> d.subtotal >= ShippingThreshold * 100
                /\ d.shipping \in {0, ShippingRate}

\* C3: an order request that ended either succeeded (one order persisted,
\* its id and total returned) or raised StoreUnavailable: no other failure.
C3_TwoOutcomes ==
    \A r \in Reqs :
        Finished(r, "create_order") =>
            \/ req[r].resp.kind = "StoreUnavailable"
            \/ /\ req[r].resp.status = 200
               /\ \E k \in 1..Len(order) :
                     order[k]._id = req[r].resp.body.order_id

\* C4: with the store not configured every request of the four handlers
\* ends with StoreUnavailable (500) at once, also for a malformed product
\* id, and the store is left as it was.
C4_StoreUnavailableFirst ==
    ~db =>
        /\ \A r \in Reqs :
              req[r].pc # "idle" =>
                  /\ req[r].pc = "done"
                  /\ req[r].resp.kind = "StoreUnavailable"
                  /\ req[r].resp.status = 500
        /\ product \in Catalogs
        /\ order = <<>>
        /\ nextId = 10 + Len(product)

\* C4 witness: a get_product with a malformed id and a seed_products both
\* ended against an unconfigured store.
C4_Witness ==
    /\ ~db
    /\ \E r \in Reqs :
          Finished(r, "get_product") /\ Len(req[r].arg.product_id) # OidLen
    /\ \E r \in Reqs : Finished(r, "seed_products")

\* C5: with the store configured get_product answers InvalidIdentifier (400)
\* for an id that is not 24 hexadecimal characters, NotFound (404) for a
\* well-formed id no stored product has, and otherwise 200 with the stored
\* record, its _id replaced by the identifier's string under "id".
C5_GetProductOutcomes ==
    [][ \A r \in Reqs :
          (db /\ Answers(r, "get_product")) =>
              LET id   == req'[r].arg.product_id
                  resp == req'[r].resp
                  wf   == Len(id) = OidLen /\ \A i \in 1..Len(id) : id[i] \in HexChars
                  hits == { k \in 1..Len(product) :
                              \A i \in 1..OidLen :
                                  i <= Len(id) /\ Lower(id[i]) = product[k]._id[i] }
              IN  /\ ~wf => resp.kind = "InvalidIdentifier" /\ resp.status = 400
                  /\ (wf /\ hits = {}) => resp.kind = "NotFound" /\ resp.status = 404
                  /\ (wf /\ hits # {}) =>
                        /\ resp.status = 200
                        /\ \E k \in hits :
                              /\ resp.body.id = product[k]._id
                              /\ DOMAIN resp.body =
                                    (DOMAIN product[k] \ {"_id"}) \cup {"id"}
                              /\ \A f \in DOMAIN product[k] \ {"_id"} :
                                    resp.body[f] = product[k][f] ]_vars

\* C5 witness: a product was fetched by an id written in upper case; the
\* id returned is the stored, lower-case one.
C5_Witness ==
    \E r \in Reqs :
        /\ Succeeded(r, "get_product")
        /\ req[r].resp.body.id # req[r].arg.product_id
        /\ req[r].resp.body.title = "Desk Lamp"

\* C6: list_products returns only records that satisfy every supplied
\* filter (category: exact equality; q: title, description or category
\* contains q, case ignored; both when both are given), and never more than
\* limit records.
C6_OnlyMatchingRecords ==
    \A r \in Reqs :
        Succeeded(r, "list_products") =>
            LET a    == req[r].arg
                body == req[r].resp.body
            IN  /\ Len(body) <= a.limit
                /\ \A i \in 1..Len(body) :
                      \E k \in 1..Len(product) :
                          /\ product[k]._id = body[i].id
                          /\ Truthy(a.category) =>
                                /\ "category" \in DOMAIN product[k]
                                /\ product[k].category = a.category[1]
                          /\ Truthy(a.q) =>
                                \E f \in {"title", "description", "category"} :
                                    /\ f \in DOMAIN product[k]
                                    /\ ContainsIgnoreCase(Chars(a.q[1]),
                                                          Chars(product[k][f]))

\* C7: a seed request against a configured store runs all 4 iterations
\* whatever failed before, ends with 200, and returns the number of inserts
\* that succeeded: the demo products in the store are as many as the
\* requests counted.
C7_SeedBestEffort ==
    db =>
        /\ \A r \in Reqs :
              req[r].op = "seed_products" =>
                  /\ req[r].loc.inserted <= req[r].loc.s - 1
                  /\ req[r].pc = "done" =>
                        /\ req[r].resp.status = 200
                        /\ req[r].loc.s = Len(samples) + 1
                        /\ req[r].resp.body.inserted = req[r].loc.inserted
        /\ SeededCount = InsertedUpTo(MaxReq)

\* C7 witness: a seed request ended whose first insert failed and whose
\* other three succeeded.
C7_Witness ==
    /\ \E r \in Reqs :
          Succeeded(r, "seed_products") /\ req[r].resp.body.inserted = 3
    /\ SeededCount = 3
    /\ \A k \in 1..Len(product) : product[k].title # samples[1].title

\* C8: a successful create_order adds exactly one order, under the
\* identifier it returns, and no step of any request changes or removes a
\* stored order.
C8_OrdersPersist ==
    [][ /\ Len(order') >= Len(order)
        /\ SubSeq(order', 1, Len(order)) = order
        /\ \A r \in Reqs :
              (Answers(r, "create_order") /\ req'[r].resp.status = 200) =>
                  /\ Len(order') = Len(order) + 1
                  /\ order'[Len(order')]._id = req'[r].resp.body.order_id
        /\ (~ \E r \in Reqs :
                Answers(r, "create_order") /\ req'[r].resp.status = 200) =>
              order' = order ]_vars

\* C8 witness: an order is stored under the identifier its request
\* returned, and a seed request inserted a product after it was.
C8_Witness ==
    /\ \E r \in Reqs :
          Succeeded(r, "create_order") /\ order[1]._id = req[r].resp.body.order_id
    /\ \E n \in 10..nextId, m \in 10..nextId :
          /\ n < m
          /\ order[1]._id = OidStr(n)
          /\ \E k \in 1..Len(product) : product[k]._id = OidStr(m)

\* C9: under every interleaving the successful order requests have
\* distinct order records, one each, priced from the request's own items;
\* fully successful seed requests add 4 products each; and a request in
\* the middle of its handler can always take its next step.
C9_RequestsIndependent ==
    /\ \A r \in Reqs :
          Succeeded(r, "create_order") =>
              \E k \in 1..Len(order) :
                  LET d   == order[k]
                      raw == Subtotal(req[r].arg.items)
                  IN  /\ d._id = req[r].resp.body.order_id
                      /\ d.items = OrderItems(req[r].arg.items)
                      /\ d.subtotal \in Round2(raw, 10)
                      /\ d.shipping = Shipping(raw)
                      /\ d.taxes \in Round2(raw * TaxPercent, 1000)
                      /\ d.total \in Round2(raw + 10 * d.shipping + 10 * d.taxes, 10)
                      /\ d.total = req[r].resp.body.total
    /\ \A r1, r2 \in Reqs :
          (r1 # r2 /\ Succeeded(r1, "create_order") /\ Succeeded(r2, "create_order"))
              => req[r1].resp.body.order_id # req[r2].resp.body.order_id
    /\ Len(order) = Cardinality({r \in Reqs : Succeeded(r, "create_order")})
    /\ \A k1, k2 \in 1..Len(order) : k1 # k2 => order[k1]._id # order[k2]._id
    /\ (\A r \in Reqs :
           req[r].op = "seed_products" =>
               Succeeded(r, "seed_products")
               /\ req[r].resp.body.inserted = Len(samples))
          => SeededCount =
                Len(samples) * Cardinality({r \in Reqs : req[r].op = "seed_products"})
    /\ \A r \in Reqs :
          /\ req[r].pc = "loop" => ENABLED seed_insert(r)
          /\ req[r].pc = "insert" => ENABLED create_order_insert(r)

\* C9 witness: two requests with the same payload both succeeded.
C9_Witness ==
    \E r1, r2 \in Reqs :
        /\ r1 # r2
        /\ Succeeded(r1, "create_order") /\ Succeeded(r2, "create_order")
        /\ req[r1].arg = req[r2].arg
        /\ req[r1].arg.items # <<>>

\* C10: a category or q given as the empty string is treated as absent:
\* list_products answers as it does without that parameter, and with no
\* filter left it answers the first limit products of the store.
C10_EmptyStringIsAbsent ==
    [][ \A r \in Reqs :
          (db /\ Answers(r, "list_products")) =>
              LET a    == req'[r].arg
                  body == req'[r].resp.body
              IN  /\ a.category = Given("") =>
                        body = ListResult(product, Absent, a.q, a.limit)
                  /\ a.q = Given("") =>
                        body = ListResult(product, a.category, Absent, a.limit)
                  /\ (a.category = Given("") /\ a.q \in {Absent, Given("")}) =>
                        body = [k \in 1..(IF a.limit < Len(product)
                                          THEN a.limit ELSE Len(product)) |->
                                   ProductView(product[k])] ]_vars

\* C10 witness: a request with category="" was answered with a product
\* whose category is not the empty string.
C10_Witness ==
    \E r \in Reqs :
        /\ Succeeded(r, "list_products")
        /\ req[r].arg.category = Given("")
        /\ Len(req[r].resp.body) >= 1
        /\ req[r].resp.body[1].category = "home"

=============================================================================
